---- MODULE Spec2Model ----
(***************************************************************************)
(* Model of the automation reconciler of aoai/ptu-resource-automation:     *)
(* create-automation.py ("v1") and create-automation-v2.py ("v2").         *)
(*                                                                         *)
(* The remote control plane is the record `remote`; one run of the script  *)
(* is StartRun (module load + entry into main) followed by one action per  *)
(* run_step of main.  A remote call that raises is chosen by the fail      *)
(* index f of the action: the f-th remote call issued by the step raises   *)
(* a transport error and has no remote effect (f = 0: none raises).        *)
(***************************************************************************)
EXTENDS Integers, Sequences, FiniteSets, TLC

\* ------------------------------------------------------------------ bounds
\* longest timestamp text given to convert_to_utc, and how many times the
\* function is applied to its own result
MaxLen == 3
MaxApply == 2
MaxRuns == 2
MaxRoleCalls == 3
NumVars == 3

\* ------------------------------------------------ module-level configuration
AA == "aa"
UPDATE_RUNBOOK_NAME == "Update-PTU"
ptu_subscription_resource_id == "/subscriptions/sub"
ptu_account_required_role == "Cognitive Services Contributor"

None == "None"
Running == -1

VARIABLES
  variant,            \* which script runs: "v1" or "v2"
  remote,             \* the control plane's resources
  pc,                 \* position of the process in main
  idx,                \* index of the for loop over schedules_data
  exit_status,        \* Running, 0 after "Done.", 1 after sys.exit(1)
  error,              \* the exception main caught, "" when none
  calls,              \* remote calls issued by the current run, in order
  vars_data,          \* loaded variables file
  schedules_data,     \* loaded schedules file
  resource_def_data,  \* loaded PTU resource reference
  runs,               \* number of runs started
  uuid_counter,       \* source of uuid.uuid4()
  hist                \* history: what earlier runs loaded and left behind

vars == <<variant, remote, pc, idx, exit_status, error, calls, vars_data,
          schedules_data, resource_def_data, runs, uuid_counter, hist>>

\* ------------------------------------------------------------ remote calls
\* an entry of calls: the operation, the resource it names, whether it raised
Call(op, name) == [op |-> op, name |-> name, raised |-> FALSE]

\* outcome of a step: the remote state it leaves, the calls it issued,
\* the exception it raised ("" when it returned) and the uuids it drew
Outcome(r, cs, err, u) == [remote |-> r, calls |-> cs, err |-> err, uuids |-> u]

\* the last call of cs raised a transport or authorization error
Raised(r, cs, u) ==
  Outcome(r, [cs EXCEPT ![Len(cs)].raised = TRUE], "HttpResponseError", u)

\* -------------------------------------------------------- JSON-like values
\* a loaded JSON scalar: its type tag t and its text s
JNum(s) == [t |-> "num", s |-> s]
JStr(s) == [t |-> "str", s |-> s]
JBool(s) == [t |-> "bool", s |-> s]

\* json.dumps of a scalar: strings are quoted, numbers and booleans are not
JsonDumps(v) == IF v.t = "str" THEN "\"" \o v.s \o "\"" ELSE v.s

\* str() of a scalar: Python spells the booleans True and False
Str(v) == IF v.t = "bool" THEN (IF v.s = "true" THEN "True" ELSE "False") ELSE v.s

\* str.lower() on the role-definition ids of the model
Lower(s) == CASE s = "/RD/Contributor" -> "/rd/contributor"
              [] s = "/rd/Contributor" -> "/rd/contributor"
              [] s = "/rd/Reader" -> "/rd/reader"
              [] OTHER -> s

\* the identity of an account that has none
NoIdentity == [type |-> None, principal_id |-> ""]

\* ------------------------------------------------------- role assignment
\* first role definition at scope whose roleName matches, None when the
\* listing is empty (the caller raises RuntimeError)
find_role_definition_id(r, scope, role_name) ==
  LET found == SelectSeq(r.roleDefinitions,
                 LAMBDA rd : rd.scope = scope /\ rd.role_name = role_name)
  IN IF found = <<>> THEN None ELSE Head(found).id

\* ensure_role_assignment comparing the role-definition ids as they are
ensure_role_assignment_exact(r, cs, u, principal_id, scope, role_name, f) ==
  LET c1 == Append(cs, Call("role_definitions.list", role_name))
      role_def_id == find_role_definition_id(r, scope, role_name)
      c2 == Append(c1, Call("role_assignments.list_for_scope", scope))
      existing == {ra \in r.roleAssignments :
                     /\ ra.scope = scope
                     /\ ra.principal_id = principal_id
                     /\ ra.role_definition_id = role_def_id}
      c3 == Append(c2, Call("role_assignments.create", principal_id))
      created == [name |-> u + 1, scope |-> scope,
                  principal_id |-> principal_id,
                  role_definition_id |-> role_def_id]
  IN IF f = 1 THEN Raised(r, c1, u)
     ELSE IF role_def_id = None THEN Outcome(r, c1, "RuntimeError", u)
     ELSE IF f = 2 THEN Raised(r, c2, u)
     ELSE IF existing # {} THEN Outcome(r, c2, "", u)
     ELSE IF f = 3 THEN Raised(r, c3, u + 1)
     ELSE Outcome([r EXCEPT !.roleAssignments = @ \cup {created}], c3, "", u + 1)

\* ensure_role_assignment: calls 1 role_definitions.list,
\* 2 role_assignments.list_for_scope, 3 role_assignments.create
ensure_role_assignment(r, cs, u, principal_id, scope, role_name, f) ==
  LET c1 == Append(cs, Call("role_definitions.list", role_name))
      role_def_id == find_role_definition_id(r, scope, role_name)
      c2 == Append(c1, Call("role_assignments.list_for_scope", scope))
      existing == {ra \in r.roleAssignments :
                     /\ ra.scope = scope
                     /\ ra.principal_id = principal_id
                     /\ Lower(ra.role_definition_id) = Lower(role_def_id)}
      c3 == Append(c2, Call("role_assignments.create", principal_id))
      created == [name |-> u + 1, scope |-> scope,
                  principal_id |-> principal_id,
                  role_definition_id |-> role_def_id]
  IN IF f = 1 THEN Raised(r, c1, u)
     ELSE IF role_def_id = None THEN Outcome(r, c1, "RuntimeError", u)
     ELSE IF f = 2 THEN Raised(r, c2, u)
     ELSE IF existing # {} THEN Outcome(r, c2, "", u)
     ELSE IF f = 3 THEN Raised(r, c3, u + 1)
     ELSE Outcome([r EXCEPT !.roleAssignments = @ \cup {created}], c3, "", u + 1)

\* ------------------------------------------------------------- account
\* ensure_automation_account without the check of the principal id
ensure_automation_account_unchecked(r, cs, u, pid, f) ==
  LET c1 == Append(cs, Call("automation_account.get", AA))
      c2 == Append(c1, Call("automation_account.create_or_update", AA))
      r2 == [r EXCEPT !.accounts = @ @@ (AA :> [id |-> AA, identity |-> NoIdentity])]
      c3 == Append(c2, Call("resources.begin_update_by_id", AA))
      r3 == [r2 EXCEPT !.accounts[AA].identity =
                         [type |-> "SystemAssigned", principal_id |-> pid]]
  IN IF f = 1 THEN Raised(r, c1, u)
     ELSE IF AA \in DOMAIN r.accounts THEN Outcome(r, c1, "", u)
     ELSE IF f = 2 THEN Raised(r, c2, u)
     ELSE IF f = 3 THEN Raised(r2, c3, u)
     ELSE ensure_role_assignment(r3, c3, u, pid, ptu_subscription_resource_id,
                                 ptu_account_required_role, f - 3)

\* ensure_automation_account re-issuing the identity update on a found
\* account that has no system-assigned identity
ensure_automation_account_healing(r, cs, u, pid, f) ==
  LET found == AA \in DOMAIN r.accounts
      c1 == Append(cs, Call("automation_account.get", AA))
      c2 == IF found THEN c1
            ELSE Append(c1, Call("automation_account.create_or_update", AA))
      r2 == IF found THEN r
            ELSE [r EXCEPT !.accounts = @ @@ (AA :> [id |-> AA, identity |-> NoIdentity])]
      c3 == Append(c2, Call("resources.begin_update_by_id", AA))
      r3 == [r2 EXCEPT !.accounts[AA].identity =
                         [type |-> "SystemAssigned", principal_id |-> pid]]
  IN IF f = 1 THEN Raised(r, c1, u)
     ELSE IF found /\ r.accounts[AA].identity.type = "SystemAssigned"
     THEN Outcome(r, c1, "", u)
     ELSE IF ~found /\ f = 2 THEN Raised(r, c2, u)
     ELSE IF f = 3 THEN Raised(r2, c3, u)
     ELSE IF pid = "" THEN Outcome(r3, c3, "RuntimeError", u)
     ELSE ensure_role_assignment(r3, c3, u, pid, ptu_subscription_resource_id,
                                 ptu_account_required_role, f - 3)

\* ensure_automation_account ensuring the role assignment on a found
\* account that has a principal id as well
ensure_automation_account_role_always(r, cs, u, pid, f) ==
  LET found == AA \in DOMAIN r.accounts
      c1 == Append(cs, Call("automation_account.get", AA))
      c2 == Append(c1, Call("automation_account.create_or_update", AA))
      r2 == [r EXCEPT !.accounts = @ @@ (AA :> [id |-> AA, identity |-> NoIdentity])]
      c3 == Append(c2, Call("resources.begin_update_by_id", AA))
      r3 == [r2 EXCEPT !.accounts[AA].identity =
                         [type |-> "SystemAssigned", principal_id |-> pid]]
  IN IF f = 1 THEN Raised(r, c1, u)
     ELSE IF found /\ r.accounts[AA].identity.principal_id = ""
     THEN Outcome(r, c1, "", u)
     ELSE IF found
     THEN ensure_role_assignment(r, c1, u, r.accounts[AA].identity.principal_id,
                                 ptu_subscription_resource_id,
                                 ptu_account_required_role, f - 1)
     ELSE IF f = 2 THEN Raised(r, c2, u)
     ELSE IF f = 3 THEN Raised(r2, c3, u)
     ELSE IF pid = "" THEN Outcome(r3, c3, "RuntimeError", u)
     ELSE ensure_role_assignment(r3, c3, u, pid, ptu_subscription_resource_id,
                                 ptu_account_required_role, f - 3)

\* ensure_automation_account: calls 1 automation_account.get,
\* 2 automation_account.create_or_update, 3 resources.begin_update_by_id,
\* then those of ensure_role_assignment.  pid is the principal id carried
\* by the result of the identity update ("" when none materialised).
ensure_automation_account(r, cs, u, pid, f) ==
  LET c1 == Append(cs, Call("automation_account.get", AA))
      c2 == Append(c1, Call("automation_account.create_or_update", AA))
      r2 == [r EXCEPT !.accounts = @ @@ (AA :> [id |-> AA, identity |-> NoIdentity])]
      c3 == Append(c2, Call("resources.begin_update_by_id", AA))
      r3 == [r2 EXCEPT !.accounts[AA].identity =
                         [type |-> "SystemAssigned", principal_id |-> pid]]
  IN IF f = 1 THEN Raised(r, c1, u)
     ELSE IF AA \in DOMAIN r.accounts THEN Outcome(r, c1, "", u)
     ELSE IF f = 2 THEN Raised(r, c2, u)
     ELSE IF f = 3 THEN Raised(r2, c3, u)
     ELSE IF pid = "" THEN Outcome(r3, c3, "RuntimeError", u)
     ELSE ensure_role_assignment(r3, c3, u, pid, ptu_subscription_resource_id,
                                 ptu_account_required_role, f - 3)

\* ------------------------------------------------------------ variables
\* the variable written only when the service does not hold it
Upsert_if_absent(r, name, v) ==
  [r EXCEPT !.variables =
     [n \in DOMAIN @ \cup {name} |->
        IF n \in DOMAIN @ THEN @[n]
        ELSE [value |-> JsonDumps(v.Value),
              is_encrypted |-> IF "Encrypted" \in DOMAIN v THEN v.Encrypted ELSE FALSE,
              description |-> ""]]]

\* variable.create_or_update of one loaded variable
Upsert(r, name, v) ==
  [r EXCEPT !.variables =
     [n \in DOMAIN @ \cup {name} |->
        IF n = name
        THEN [value |-> JsonDumps(v.Value),
              is_encrypted |-> IF "Encrypted" \in DOMAIN v THEN v.Encrypted ELSE FALSE,
              description |-> ""]
        ELSE @[n]]]

\* create_variables going on to the next item when an upsert raises
RECURSIVE create_variables_keep_going(_, _, _, _, _, _)
create_variables_keep_going(vd, k, r, cs, u, f) ==
  IF k > Len(vd) THEN Outcome(r, cs, "", u)
  ELSE LET c == Append(cs, Call("variable.create_or_update", vd[k].name))
       IN IF f = k
          THEN create_variables_keep_going(vd, k + 1, r,
                 [c EXCEPT ![Len(c)].raised = TRUE], u, f)
          ELSE create_variables_keep_going(vd, k + 1,
                 Upsert(r, vd[k].name, vd[k].v), c, u, f)

\* create_variables from the k-th item of vd on: one upsert per item, in
\* file order; the f-th upsert raises and ends the loop
RECURSIVE create_variables_from(_, _, _, _, _, _)
create_variables_from(vd, k, r, cs, u, f) ==
  IF k > Len(vd) THEN Outcome(r, cs, "", u)
  ELSE LET c == Append(cs, Call("variable.create_or_update", vd[k].name))
       IN IF f = k THEN Raised(r, c, u)
          ELSE create_variables_from(vd, k + 1, Upsert(r, vd[k].name, vd[k].v), c, u, f)

create_variables(vd, r, cs, u, f) == create_variables_from(vd, 1, r, cs, u, f)

\* -------------------------------------------------------------- runbook
\* a runbook that the get finds is left as it is
import_and_publish_runbook_skip_found(runbook_name, content, r, cs, u, raced, f) ==
  LET c1 == Append(cs, Call("runbook.get", runbook_name))
      c2 == Append(c1, Call("runbook.create_or_update", runbook_name))
      r2 == [r EXCEPT !.runbooks = @ @@ (runbook_name :>
               [draft |-> "", published |-> None])]
      c3 == Append(c2, Call("runbook_draft.begin_replace_content", runbook_name))
      c4 == Append(c3, Call("runbook.begin_publish", runbook_name))
      replaced == [r2 EXCEPT !.runbooks[runbook_name].draft = content]
      inOrder == [replaced EXCEPT !.runbooks[runbook_name].published = content]
      stale == [r2 EXCEPT !.runbooks[runbook_name] =
                  [draft |-> content, published |-> @.draft]]
      done == Call("runbook_draft.replace_content.completed", runbook_name)
      pub == Call("runbook.publish.completed", runbook_name)
      cPub == Append(Append(c3, done), Call("runbook.begin_publish", runbook_name))
  IN IF f = 1 THEN Raised(r, c1, u)
     ELSE IF runbook_name \in DOMAIN r.runbooks THEN Outcome(r, c1, "", u)
     ELSE IF f = 2 THEN Raised(r, c2, u)
     ELSE IF f = 3 THEN Raised(r2, c3, u)
     ELSE IF f = 4 THEN Raised(replaced, cPub, u)
     ELSE IF raced
          THEN Outcome(stale, Append(Append(c4, pub), done), "", u)
          ELSE Outcome(inOrder, Append(cPub, pub), "", u)

\* import_and_publish_runbook: calls 1 runbook.get, 2 runbook.create_or_update
\* (only after NotFound), then runbook_draft.begin_replace_content and
\* runbook.begin_publish.  The poller of begin_replace_content is dropped,
\* so the replace operation is still running on the service when publish is
\* requested: raced tells whether publish is served before it lands.
import_and_publish_runbook(runbook_name, content, r, cs, u, raced, f) ==
  LET found == runbook_name \in DOMAIN r.runbooks
      c1 == Append(cs, Call("runbook.get", runbook_name))
      c2 == IF found THEN c1
            ELSE Append(c1, Call("runbook.create_or_update", runbook_name))
      r2 == IF found THEN r
            ELSE [r EXCEPT !.runbooks = @ @@ (runbook_name :>
                     [draft |-> "", published |-> None])]
      nget == IF found THEN 1 ELSE 2
      c3 == Append(c2, Call("runbook_draft.begin_replace_content", runbook_name))
      c4 == Append(c3, Call("runbook.begin_publish", runbook_name))
      replaced == [r2 EXCEPT !.runbooks[runbook_name].draft = content]
      \* replace lands, then publish is served
      inOrder == [replaced EXCEPT !.runbooks[runbook_name].published = content]
      \* publish is served on the old draft, then replace lands
      stale == [r2 EXCEPT !.runbooks[runbook_name] =
                  [draft |-> content, published |-> @.draft]]
      done == Call("runbook_draft.replace_content.completed", runbook_name)
      pub == Call("runbook.publish.completed", runbook_name)
      cPub == Append(Append(c3, done), Call("runbook.begin_publish", runbook_name))
  IN IF f = 1 THEN Raised(r, c1, u)
     ELSE IF ~found /\ f = 2 THEN Raised(r, c2, u)
     ELSE IF f = nget + 1 THEN Raised(r2, c3, u)
     ELSE IF f = nget + 2 THEN Raised(replaced, cPub, u)
     ELSE IF raced
          THEN Outcome(stale, Append(Append(c4, pub), done), "", u)
          ELSE Outcome(inOrder, Append(cPub, pub), "", u)

\* ------------------------------------------------------- time normalizer
\* A timestamp is a string, modelled as the sequence of its character codes:
\* two digits (hours on a common day) and an optional trailing "Z".
ChZ == 90
Digit(d) == 48 + d
NoTime == <<>>

EndsWithZ(s) == Len(s) > 0 /\ s[Len(s)] = ChZ

\* str <= str of Python: lexicographic on the character codes
RECURSIVE StrLeq(_, _)
StrLeq(a, b) ==
  IF a = <<>> THEN TRUE
  ELSE IF b = <<>> THEN FALSE
  ELSE IF Head(a) # Head(b) THEN Head(a) < Head(b)
  ELSE StrLeq(Tail(a), Tail(b))

\* str.upper() on the zone names of the model
Upper(z) == CASE z = "utc" -> "UTC" [] z = "Utc" -> "UTC" [] z = "uTC" -> "UTC"
              [] OTHER -> z

\* hours that the zone is behind UTC (ZoneInfo + astimezone(timezone.utc))
UtcOffset(z) == CASE z = "Etc/GMT+1" -> 1 [] z = "Etc/GMT+2" -> 2 [] OTHER -> 0

\* datetime.fromisoformat of a naive timestamp, and strftime(...Z)
FromIso(s) == (s[1] - 48) * 10 + (s[2] - 48)
Strftime(n) == <<Digit(n \div 10), Digit(n % 10), ChZ>>

\* convert_to_utc appending "Z" whatever the input ends in
convert_to_utc_always_append(iso_str, time_zone) ==
  IF time_zone = "" \/ Upper(time_zone) = "UTC"
  THEN Append(iso_str, ChZ)
  ELSE Strftime(FromIso(iso_str) + UtcOffset(time_zone))

convert_to_utc(iso_str, time_zone) ==
  IF time_zone = "" \/ Upper(time_zone) = "UTC"
  THEN IF EndsWithZ(iso_str) THEN iso_str ELSE Append(iso_str, ChZ)
  ELSE Strftime(FromIso(iso_str) + UtcOffset(time_zone))

\* ------------------------------------------------------------ schedules
\* dict.get(key, default) on a loaded schedule definition
Get(d, key, default) == IF key \in DOMAIN d THEN d[key] ELSE default

start_time_utc(d) == convert_to_utc(d.StartTime, Get(d, "TimeZone", "UTC"))
end_time_utc(d) ==
  IF Get(d, "EndTime", NoTime) # NoTime
  THEN convert_to_utc(d.EndTime, Get(d, "TimeZone", "UTC")) ELSE NoTime

\* the check of ensure_schedule that raises ValueError
EndNotAfterStart(d) ==
  end_time_utc(d) # NoTime /\ StrLeq(end_time_utc(d), start_time_utc(d))

\* ensure_schedule with the enabled-flag update outside the except branch
ensure_schedule_sync_enabled(name, d, r, cs, u, enabled0, f) ==
  LET found == name \in DOMAIN r.schedules
      c1 == Append(cs, Call("schedule.get", name))
      c2 == IF found THEN c1 ELSE Append(c1, Call("schedule.create_or_update", name))
      created == [start_time |-> start_time_utc(d),
                  expiry_time |-> end_time_utc(d),
                  frequency |-> d.Frequency,
                  interval |-> Get(d, "Interval", 0),
                  time_zone |-> Get(d, "TimeZone", "UTC"),
                  is_enabled |-> enabled0]
      r2 == IF found THEN r ELSE [r EXCEPT !.schedules = @ @@ (name :> created)]
      is_enabled == Get(d, "IsEnabled", TRUE)
      c3 == Append(c2, Call("schedule.update", name))
      r3 == [r2 EXCEPT !.schedules[name].is_enabled = is_enabled]
  IN IF EndNotAfterStart(d) THEN Outcome(r, cs, "ValueError", u)
     ELSE IF f = 1 THEN Raised(r, c1, u)
     ELSE IF ~found /\ f = 2 THEN Raised(r, c2, u)
     ELSE IF r2.schedules[name].is_enabled = is_enabled THEN Outcome(r2, c2, "", u)
     ELSE IF f = 3 THEN Raised(r2, c3, u)
     ELSE Outcome(r3, c3, "", u)

\* ensure_schedule leaving the created schedule's enabled flag as it is
ensure_schedule_create_only(name, d, r, cs, u, enabled0, f) ==
  LET c1 == Append(cs, Call("schedule.get", name))
      c2 == Append(c1, Call("schedule.create_or_update", name))
      created == [start_time |-> start_time_utc(d),
                  expiry_time |-> end_time_utc(d),
                  frequency |-> d.Frequency,
                  interval |-> Get(d, "Interval", 0),
                  time_zone |-> Get(d, "TimeZone", "UTC"),
                  is_enabled |-> enabled0]
      r2 == [r EXCEPT !.schedules = @ @@ (name :> created)]
  IN IF EndNotAfterStart(d) THEN Outcome(r, cs, "ValueError", u)
     ELSE IF f = 1 THEN Raised(r, c1, u)
     ELSE IF name \in DOMAIN r.schedules THEN Outcome(r, c1, "", u)
     ELSE IF f = 2 THEN Raised(r, c2, u)
     ELSE Outcome(r2, c2, "", u)

\* ensure_schedule creating the schedule after any error of the get
ensure_schedule_any_error(name, d, r, cs, u, enabled0, f) ==
  LET c1 == Append(cs, Call("schedule.get", name))
      c1r == Append(cs, [Call("schedule.get", name) EXCEPT !.raised = TRUE])
      absent == name \notin DOMAIN r.schedules
      c2 == Append(IF f = 1 THEN c1r ELSE c1, Call("schedule.create_or_update", name))
      created == [start_time |-> start_time_utc(d),
                  expiry_time |-> end_time_utc(d),
                  frequency |-> d.Frequency,
                  interval |-> Get(d, "Interval", 0),
                  time_zone |-> Get(d, "TimeZone", "UTC"),
                  is_enabled |-> enabled0]
      r2 == IF absent THEN [r EXCEPT !.schedules = @ @@ (name :> created)] ELSE r
      is_enabled == Get(d, "IsEnabled", TRUE)
      c3 == Append(c2, Call("schedule.update", name))
      r3 == [r2 EXCEPT !.schedules[name].is_enabled = is_enabled]
  IN IF EndNotAfterStart(d) THEN Outcome(r, cs, "ValueError", u)
     ELSE IF f # 1 /\ ~absent THEN Outcome(r, c1, "", u)
     ELSE IF f = 2 THEN Raised(r, c2, u)
     ELSE IF r2.schedules[name].is_enabled = is_enabled THEN Outcome(r2, c2, "", u)
     ELSE IF f = 3 THEN Raised(r2, c3, u)
     ELSE Outcome(r3, c3, "", u)

\* ensure_schedule (v1): validation, then calls 1 schedule.get,
\* 2 schedule.create_or_update, 3 schedule.update.  enabled0 is the enabled
\* flag the service gives the schedule it creates.
ensure_schedule(name, d, r, cs, u, enabled0, f) ==
  LET c1 == Append(cs, Call("schedule.get", name))
      c2 == Append(c1, Call("schedule.create_or_update", name))
      created == [start_time |-> start_time_utc(d),
                  expiry_time |-> end_time_utc(d),
                  frequency |-> d.Frequency,
                  interval |-> Get(d, "Interval", 0),   \* 0 stands for None
                  time_zone |-> Get(d, "TimeZone", "UTC"),
                  is_enabled |-> enabled0]
      r2 == [r EXCEPT !.schedules = @ @@ (name :> created)]
      is_enabled == Get(d, "IsEnabled", TRUE)
      c3 == Append(c2, Call("schedule.update", name))
      r3 == [r2 EXCEPT !.schedules[name].is_enabled = is_enabled]
  IN IF EndNotAfterStart(d) THEN Outcome(r, cs, "ValueError", u)
     ELSE IF f = 1 THEN Raised(r, c1, u)
     ELSE IF name \in DOMAIN r.schedules THEN Outcome(r, c1, "", u)
     ELSE IF f = 2 THEN Raised(r, c2, u)
     ELSE IF enabled0 = is_enabled THEN Outcome(r2, c2, "", u)
     ELSE IF f = 3 THEN Raised(r2, c3, u)
     ELSE Outcome(r3, c3, "", u)

\* the merge with the schedule's own values winning
MergedParameters_own_wins(d, params) ==
  LET own == Get(d, "Parameters", <<>>)
  IN [k \in DOMAIN own \cup DOMAIN params |->
        IF k \in DOMAIN own THEN own[k] ELSE params[k]]

\* parameters = schedule_def.get("Parameters", {}); parameters.update(params)
MergedParameters(d, params) ==
  LET own == Get(d, "Parameters", <<>>)
  IN [k \in DOMAIN own \cup DOMAIN params |->
        IF k \in DOMAIN params THEN params[k] ELSE own[k]]

\* the update is done in place on the dict held by the schedule definition
AfterMerge(d, params) ==
  IF "Parameters" \in DOMAIN d
  THEN [d EXCEPT !.Parameters = MergedParameters(d, params)] ELSE d

params_payload(parameters) == [k \in DOMAIN parameters |-> Str(parameters[k])]

\* the link created without looking at the listing
link_schedule_always(name, d, params, r, cs, u, f) ==
  LET runbook_name == d.RunbookName
      c1 == Append(cs, Call("job_schedule.list_by_automation_account", AA))
      c2 == Append(c1, Call("job_schedule.create", name))
      created == [job_schedule_id |-> u + 1, schedule |-> name,
                  runbook |-> runbook_name,
                  parameters |-> params_payload(MergedParameters(d, params))]
  IN IF f = 1 THEN Raised(r, c1, u)
     ELSE IF f = 2 THEN Raised(r, c2, u + 1)
     ELSE Outcome([r EXCEPT !.jobSchedules = @ \cup {created}], c2, "", u + 1)

\* the listing and creation of the link, shared by ensure_schedule_link (v1)
\* and the second half of ensure_schedule_and_link (v2):
\* calls 1 job_schedule.list_by_automation_account, 2 job_schedule.create
link_schedule(name, d, params, r, cs, u, f) ==
  LET runbook_name == d.RunbookName
      c1 == Append(cs, Call("job_schedule.list_by_automation_account", AA))
      existing_links == {js \in r.jobSchedules :
                           js.schedule = name /\ js.runbook = runbook_name}
      c2 == Append(c1, Call("job_schedule.create", name))
      created == [job_schedule_id |-> u + 1, schedule |-> name,
                  runbook |-> runbook_name,
                  parameters |-> params_payload(MergedParameters(d, params))]
  IN IF f = 1 THEN Raised(r, c1, u)
     ELSE IF existing_links # {} THEN Outcome(r, c1, "", u)
     ELSE IF f = 2 THEN Raised(r, c2, u + 1)
     ELSE Outcome([r EXCEPT !.jobSchedules = @ \cup {created}], c2, "", u + 1)

ensure_schedule_link(name, d, params, r, cs, u, f) ==
  link_schedule(name, d, params, r, cs, u, f)

\* ensure_schedule_and_link (v2): calls 1 schedule.get,
\* 2 schedule.create_or_update (only after NotFound), then those of the link
ensure_schedule_and_link(name, d, params, r, cs, u, enabled0, f) ==
  LET found == name \in DOMAIN r.schedules
      c1 == Append(cs, Call("schedule.get", name))
      c2 == Append(c1, Call("schedule.create_or_update", name))
      created == [start_time |-> d.StartTime,
                  expiry_time |-> NoTime,
                  frequency |-> d.Frequency,
                  interval |-> d.Interval,
                  time_zone |-> Get(d, "TimeZone", "UTC"),
                  is_enabled |-> enabled0]
      r2 == [r EXCEPT !.schedules = @ @@ (name :> created)]
  IN IF "Interval" \notin DOMAIN d THEN Outcome(r, cs, "KeyError", u)
     ELSE IF f = 1 THEN Raised(r, c1, u)
     ELSE IF found THEN link_schedule(name, d, params, r, c1, u, f - 1)
     ELSE IF f = 2 THEN Raised(r, c2, u)
     ELSE link_schedule(name, d, params, r2, c2, u, f - 2)

\* ------------------------------------------------------ the loaded files
VarName(i) == "V" \o ToString(i)

VarDef(k) ==
  CASE k % 3 = 0 -> [Value |-> JNum("1")]
    [] k % 3 = 1 -> [Value |-> JStr("a"), Encrypted |-> TRUE]
    [] OTHER     -> [Value |-> JBool("true"), Encrypted |-> FALSE]

\* a variables file: NumVars items in file order; files of different p
\* share all names but one
VarsFile(p) == [i \in 1..NumVars |-> [name |-> VarName(i + p), v |-> VarDef(i)]]

T(h) == <<Digit(h \div 10), Digit(h % 10)>>
TZ(h) == Append(T(h), ChZ)

DefA ==
  [RunbookName |-> UPDATE_RUNBOOK_NAME, StartTime |-> T(2), EndTime |-> T(5),
   Frequency |-> "Day", Interval |-> 1, TimeZone |-> "Etc/GMT+1",
   IsEnabled |-> FALSE,
   Parameters |-> ("Mode" :> JNum("1")) @@ ("AccountName" :> JStr("own"))]

DefA2 ==
  [RunbookName |-> UPDATE_RUNBOOK_NAME, StartTime |-> T(3),
   Frequency |-> "Week", Interval |-> 2, TimeZone |-> "utc",
   IsEnabled |-> TRUE,
   Parameters |-> ("Mode" :> JBool("true"))]

DefB ==
  [RunbookName |-> UPDATE_RUNBOOK_NAME, StartTime |-> TZ(3),
   Frequency |-> "Hour", Interval |-> 2]

DefBad ==
  [RunbookName |-> UPDATE_RUNBOOK_NAME, StartTime |-> T(4), EndTime |-> TZ(4),
   Frequency |-> "Day", Interval |-> 1, TimeZone |-> "UTC"]

Item(name, d) == [name |-> name, def |-> d]

\* schedules_data: the dict of the file in file order, or the list [] that
\* stands in when the file is missing
SchedDict(items) == [kind |-> "dict", items |-> items]
SchedList == [kind |-> "list", items |-> <<>>]

ResourceDef(acct) ==
  ("ResourceGroupName" :> JStr("ptu-rg")) @@ ("AccountName" :> JStr(acct))

\* nothing loaded yet
NoFiles == [vars |-> <<>>, body |-> "", resdef |-> <<>>, schedules |-> SchedList]

\* what a run can find on disk
DesiredFiles ==
  { [vars |-> VarsFile(0), body |-> "body1", resdef |-> ResourceDef("ptu1"),
     schedules |-> SchedDict(<<Item("S1", DefA), Item("S2", DefB)>>)],
    [vars |-> VarsFile(1), body |-> "body2", resdef |-> ResourceDef("ptu2"),
     schedules |-> SchedDict(<<Item("S1", DefA2)>>)],
    [vars |-> VarsFile(0), body |-> "body1", resdef |-> ResourceDef("ptu1"),
     schedules |-> SchedDict(<<Item("S2", DefB), Item("S1", DefBad)>>)],
    [vars |-> VarsFile(1), body |-> "body1", resdef |-> ResourceDef("ptu1"),
     schedules |-> SchedList] }

\* ----------------------------------------------------------- the service
RoleDefinition(id) ==
  [id |-> id, scope |-> ptu_subscription_resource_id,
   role_name |-> ptu_account_required_role]

EmptyRemote(roleDefs) ==
  [accounts |-> <<>>, roleDefinitions |-> roleDefs, roleAssignments |-> {},
   variables |-> <<>>, runbooks |-> <<>>, schedules |-> <<>>,
   jobSchedules |-> {}]

\* principal ids the identity update can report
PrincipalIds == {"", "p1"}

Init ==
  /\ variant \in {"v1", "v2"}
  /\ \E rds \in {<<>>, <<RoleDefinition("/rd/Contributor")>>} :
       remote = EmptyRemote(rds)
  /\ pc = "idle"
  /\ idx = 0
  /\ exit_status = Running
  /\ error = ""
  /\ calls = <<>>
  /\ vars_data = <<>>
  /\ schedules_data = SchedList
  /\ resource_def_data = <<>>
  /\ runs = 0
  /\ uuid_counter = 0
  /\ hist = [first |-> remote, before |-> remote, loaded |-> NoFiles, prev |-> <<>>,
             created |-> <<>>]

\* ------------------------------------------------------------------ main
\* the entry of the for loop of main after the runbook step
LoopEntry == IF schedules_data.kind = "list" THEN "AttributeError"
             ELSE IF schedules_data.items = <<>> THEN "done" ELSE "schedule"

\* the step after the schedule loop body for item idx is through
LoopNext == IF idx < Len(schedules_data.items) THEN "schedule" ELSE "done"

\* main going on to the next step whatever the step raised
ContinueAnyway(o, next, i) ==
  /\ remote' = o.remote
  /\ calls' = o.calls
  /\ uuid_counter' = o.uuids
  /\ IF next = "AttributeError"
     THEN pc' = "failed" /\ error' = next /\ exit_status' = 1 /\ idx' = idx
     ELSE /\ pc' = next /\ error' = o.err /\ idx' = i
          /\ exit_status' = IF next = "done" THEN 0 ELSE Running

\* run_step re-raises and main exits with 1; otherwise main goes on to
\* the step next (or prints Done.)
Continue(o, next, i) ==
  /\ remote' = o.remote
  /\ calls' = o.calls
  /\ uuid_counter' = o.uuids
  /\ IF o.err # ""
     THEN pc' = "failed" /\ error' = o.err /\ exit_status' = 1 /\ idx' = idx
     ELSE IF next = "AttributeError"
     THEN pc' = "failed" /\ error' = next /\ exit_status' = 1 /\ idx' = idx
     ELSE /\ pc' = next /\ error' = "" /\ idx' = i
          /\ exit_status' = IF next = "done" THEN 0 ELSE Running

\* a process is started: the module level loads the files, main begins
StartRun ==
  /\ pc \in {"idle", "done", "failed"}
  /\ runs < MaxRuns
  /\ \E d \in DesiredFiles :
       /\ vars_data' = d.vars
       /\ schedules_data' = d.schedules
       /\ resource_def_data' = d.resdef
       /\ hist' = [first |-> hist.first, before |-> remote, loaded |-> d,
                   prev |-> IF pc = "idle" THEN <<>>
                            ELSE <<[before |-> hist.before, loaded |-> hist.loaded,
                                    error |-> error, calls |-> calls,
                                    after |-> remote]>>,
                   created |-> <<>>]
  /\ pc' = "account"
  /\ idx' = 0
  /\ exit_status' = Running
  /\ error' = ""
  /\ calls' = <<>>
  /\ runs' = runs + 1
  /\ UNCHANGED <<variant, remote, uuid_counter>>

EnsureAutomationAccount ==
  /\ pc = "account"
  /\ \E f \in 0..6, pid \in PrincipalIds :
       Continue(ensure_automation_account(remote, calls, uuid_counter, pid, f),
                "variables", idx)
  /\ UNCHANGED <<variant, vars_data, schedules_data, resource_def_data, runs, hist>>

CreateVariables ==
  /\ pc = "variables"
  /\ \E f \in 0..Len(vars_data) :
       Continue(create_variables(vars_data, remote, calls, uuid_counter, f),
                "runbook", idx)
  /\ UNCHANGED <<variant, vars_data, schedules_data, resource_def_data, runs, hist>>

ImportAndPublishRunbook ==
  /\ pc = "runbook"
  /\ \E f \in 0..4, raced \in BOOLEAN :
       Continue(import_and_publish_runbook(UPDATE_RUNBOOK_NAME, hist.loaded.body,
                  remote, calls, uuid_counter, raced, f),
                LoopEntry, 1)
  /\ UNCHANGED <<variant, vars_data, schedules_data, resource_def_data, runs, hist>>

\* hist.created keeps current_status, the enabled flag of the schedule that
\* create_or_update returned, for the schedules the run has created
EnsureSchedule ==
  /\ pc = "schedule"
  /\ variant = "v1"
  /\ LET s == schedules_data.items[idx] IN
     \E f \in 0..3, enabled0 \in BOOLEAN :
       LET o == ensure_schedule(s.name, s.def, remote, calls, uuid_counter, enabled0, f)
       IN /\ Continue(o, "link", idx)
          /\ hist' = IF s.name \in DOMAIN o.remote.schedules \ DOMAIN remote.schedules
                     THEN [hist EXCEPT !.created = @ @@ (s.name :> enabled0)]
                     ELSE hist
  /\ UNCHANGED <<variant, vars_data, schedules_data, resource_def_data, runs>>

EnsureScheduleLink ==
  /\ pc = "link"
  /\ LET s == schedules_data.items[idx] IN
       /\ \E f \in 0..2 :
            Continue(ensure_schedule_link(s.name, s.def, resource_def_data,
                       remote, calls, uuid_counter, f),
                     LoopNext, idx + 1)
       /\ schedules_data' =
            [schedules_data EXCEPT !.items[idx].def = AfterMerge(s.def, resource_def_data)]
  /\ UNCHANGED <<variant, vars_data, resource_def_data, runs, hist>>

EnsureScheduleAndLink ==
  /\ pc = "schedule"
  /\ variant = "v2"
  /\ LET s == schedules_data.items[idx] IN
       /\ \E f \in 0..4, enabled0 \in BOOLEAN :
            Continue(ensure_schedule_and_link(s.name, s.def, resource_def_data,
                       remote, calls, uuid_counter, enabled0, f),
                     LoopNext, idx + 1)
       /\ schedules_data' =
            [schedules_data EXCEPT !.items[idx].def = AfterMerge(s.def, resource_def_data)]
  /\ UNCHANGED <<variant, vars_data, resource_def_data, runs, hist>>

Next ==
  \/ StartRun
  \/ EnsureAutomationAccount
  \/ CreateVariables
  \/ ImportAndPublishRunbook
  \/ EnsureSchedule
  \/ EnsureScheduleLink
  \/ EnsureScheduleAndLink

Spec == Init /\ [][Next]_vars

\* --------------------------------- ensure_role_assignment called on its own
ptu_resource_group_id == "/subscriptions/sub/resourceGroups/ptu-rg"
Scopes == {ptu_subscription_resource_id, ptu_resource_group_id}

RoleDefinitionAt(id, scope, role_name) ==
  [id |-> id, scope |-> scope, role_name |-> role_name]

\* what role_definitions.list can hold: nothing, or the required role at
\* both scopes with its id in either spelling, with or without Reader
RoleDefListings ==
  { <<>>,
    <<RoleDefinitionAt("/rd/Contributor", ptu_subscription_resource_id, ptu_account_required_role),
      RoleDefinitionAt("/rd/Contributor", ptu_resource_group_id, ptu_account_required_role),
      RoleDefinitionAt("/rd/Reader", ptu_subscription_resource_id, "Reader")>>,
    <<RoleDefinitionAt("/RD/Contributor", ptu_subscription_resource_id, ptu_account_required_role),
      RoleDefinitionAt("/RD/Contributor", ptu_resource_group_id, ptu_account_required_role)>> }

Binding(name, principal, id) ==
  [name |-> name, scope |-> ptu_subscription_resource_id,
   principal_id |-> principal, role_definition_id |-> id]

\* role assignments made by other means before the first call
ForeignAssignments ==
  { {}, {Binding(101, "p1", "/RD/Contributor")},
    {Binding(102, "p2", "/rd/Contributor"), Binding(103, "p1", "/rd/Reader")} }

InitRole ==
  /\ variant = "v1"
  /\ \E rds \in RoleDefListings, ras \in ForeignAssignments :
       remote = [EmptyRemote(rds) EXCEPT !.roleAssignments = ras]
  /\ pc = "role"
  /\ idx = 0
  /\ exit_status = Running
  /\ error = ""
  /\ calls = <<>>
  /\ vars_data = <<>>
  /\ schedules_data = SchedList
  /\ resource_def_data = <<>>
  /\ runs = 0
  /\ uuid_counter = 0
  /\ hist = [first |-> remote, before |-> remote, loaded |-> NoFiles, prev |-> <<>>,
             created |-> <<>>]

\* one call ensure_role_assignment(principal_id, scope, role_name)
EnsureRoleAssignment ==
  /\ pc = "role"
  /\ runs < MaxRoleCalls
  /\ \E principal_id \in {"p1", "p2"}, scope \in Scopes,
        role_name \in {ptu_account_required_role, "Reader"}, f \in 0..3 :
       LET o == ensure_role_assignment(remote, <<>>, uuid_counter, principal_id,
                                       scope, role_name, f)
       IN /\ remote' = o.remote
          /\ calls' = o.calls
          /\ uuid_counter' = o.uuids
          /\ error' = o.err
          /\ hist' = [hist EXCEPT !.before = remote,
                        !.prev = <<[principal_id |-> principal_id, scope |-> scope,
                                    role_name |-> role_name]>>]
  /\ runs' = runs + 1
  /\ UNCHANGED <<variant, pc, idx, exit_status, vars_data, schedules_data,
                 resource_def_data>>

NextRole == EnsureRoleAssignment

SpecRole == InitRole /\ [][NextRole]_vars

\* ------------------------------------------------- a whole run, no failure
SchedNames == {"S1", "S2"}

\* the for loop of main from item k on, no remote call raising; en gives
\* the enabled flag the service puts on each schedule it creates
RECURSIVE schedule_loop(_, _, _, _, _, _, _, _)
schedule_loop(v, items, k, params, r, cs, u, en) ==
  IF k > Len(items) THEN Outcome(r, cs, "", u)
  ELSE LET s == items[k]
           o1 == IF v = "v1"
                 THEN ensure_schedule(s.name, s.def, r, cs, u, en[s.name], 0)
                 ELSE ensure_schedule_and_link(s.name, s.def, params, r, cs, u,
                                               en[s.name], 0)
           o2 == IF v = "v1" /\ o1.err = ""
                 THEN ensure_schedule_link(s.name, s.def, params, o1.remote,
                                           o1.calls, o1.uuids, 0)
                 ELSE o1
       IN IF o2.err # "" THEN o2
          ELSE schedule_loop(v, items, k + 1, params, o2.remote, o2.calls, o2.uuids, en)

\* main from the remote state r with the files d, no remote call raising
main(v, d, r, u, pid, raced, en) ==
  LET a == ensure_automation_account(r, <<>>, u, pid, 0)
      b == IF a.err = "" THEN create_variables(d.vars, a.remote, a.calls, a.uuids, 0)
           ELSE a
      c == IF b.err = ""
           THEN import_and_publish_runbook(UPDATE_RUNBOOK_NAME, d.body, b.remote,
                                           b.calls, b.uuids, raced, 0)
           ELSE b
  IN IF c.err # "" THEN c
     ELSE IF d.schedules.kind = "list"
     THEN Outcome(c.remote, c.calls, "AttributeError", c.uuids)
     ELSE schedule_loop(v, d.schedules.items, 1, d.resdef, c.remote, c.calls, c.uuids, en)

\* a remote state without the random ids of role assignments and links
Anonymous(r) ==
  [r EXCEPT !.roleAssignments =
              {[scope |-> ra.scope, principal_id |-> ra.principal_id,
                role_definition_id |-> ra.role_definition_id] : ra \in @},
            !.jobSchedules =
              {[schedule |-> js.schedule, runbook |-> js.runbook,
                parameters |-> js.parameters] : js \in @}]

\* ---------------------------------------------------------------- claims
CallIdx == 1..Len(calls)
HasPrev == hist.prev # <<>>
Prev == hist.prev[1]

\* C1: a second complete run with the same files, after a first complete
\* run that started on an empty service, leaves the service exactly as the
\* first run left it.
C1_Idempotent ==
  (/\ pc = "done" /\ HasPrev
   /\ Prev.error = "" /\ Prev.before = hist.first
   /\ Prev.loaded = hist.loaded)
  => remote = Prev.after

\* the service states that complete runs of main from r with the files d
\* can leave, whatever the service answers
CompleteRuns(v, d, r) ==
  {o.remote : o \in {x \in {main(v, d, r, 0, pid, raced, en) :
                              pid \in PrincipalIds, raced \in BOOLEAN,
                              en \in [SchedNames -> BOOLEAN]} : x.err = ""}}

\* C2: a complete run that follows a run aborted by a raising remote call,
\* with the same files, leaves the service as some complete run from the
\* state before the aborted run leaves it (random ids aside).
C2_RecoveryByRerun ==
  (/\ pc = "done" /\ HasPrev
   /\ Prev.error = "HttpResponseError"
   /\ Prev.loaded = hist.loaded
   /\ CompleteRuns(variant, hist.loaded, Prev.before) # {})
  => \E r \in CompleteRuns(variant, hist.loaded, Prev.before) :
       Anonymous(r) = Anonymous(remote)

\* C3: a remote call that raises is the last call of its run, and the run
\* has ended with exit status 1.
C3_FailFast ==
  \A i \in CallIdx :
    calls[i].raised => i = Len(calls) /\ pc = "failed" /\ exit_status = 1

\* the upsert of the 2nd variable raised: no later variable was attempted
C3_Witness ==
  /\ Len(calls) > 0
  /\ calls[Len(calls)] = [op |-> "variable.create_or_update", name |-> VarName(2),
                          raised |-> TRUE]
  /\ Len(vars_data) >= 3
  /\ \A i \in CallIdx : calls[i].name # VarName(3)
  /\ \A i \in CallIdx : calls[i].op \notin {"runbook.get", "schedule.get",
                                            "job_schedule.create"}

RoleAssignmentOps == {"role_assignments.list_for_scope", "role_assignments.create"}

\* C4: a role-assignment call is issued only after an identity update of
\* the same run that came back with a principal id; when the update comes
\* back without one the step raises and no role-assignment call is issued.
C4_IdentityBeforeRole ==
  /\ \A i \in CallIdx :
       calls[i].op \in RoleAssignmentOps =>
         /\ \E j \in 1..(i - 1) :
              calls[j].op = "resources.begin_update_by_id" /\ ~calls[j].raised
         /\ AA \in DOMAIN remote.accounts
         /\ remote.accounts[AA].identity.principal_id # ""
  /\ \A i \in CallIdx :
       calls[i].op = "role_assignments.create" => calls[i].name # ""
  /\ (/\ Len(calls) > 0
      /\ calls[Len(calls)].op = "resources.begin_update_by_id"
      /\ ~calls[Len(calls)].raised
      /\ remote.accounts[AA].identity.principal_id = "")
     => pc = "failed" /\ error = "RuntimeError"

C4_Witness ==
  /\ \E i \in CallIdx : calls[i].op = "role_assignments.create" /\ ~calls[i].raised
  /\ remote.roleAssignments # {}

\* C5: a publish is requested only after the content replace of the same
\* run has completed, so a complete runbook step leaves the body just read
\* as the published content.
C5_ReplaceBeforePublish ==
  /\ \A i \in CallIdx :
       calls[i].op = "runbook.begin_publish" =>
         \E j \in 1..(i - 1) :
           calls[j].op = "runbook_draft.replace_content.completed"
  /\ (\E i \in CallIdx : calls[i].op = "runbook.publish.completed")
       => remote.runbooks[UPDATE_RUNBOOK_NAME].published = hist.loaded.body

ScheduleOps == {"schedule.get", "schedule.create_or_update", "schedule.update"}
LoadedItems == hist.loaded.schedules.items

\* C6: a link is created only for a schedule that was on the service when
\* the run began or was created earlier in the run, and the link step runs
\* only right after a schedule call that did not raise.
C6_ScheduleBeforeLink ==
  /\ \A i \in CallIdx :
       calls[i].op = "job_schedule.create" =>
         \/ calls[i].name \in DOMAIN hist.before.schedules
         \/ \E j \in 1..(i - 1) :
              calls[j] = Call("schedule.create_or_update", calls[i].name)
  /\ \A i \in CallIdx :
       calls[i].op = "job_schedule.list_by_automation_account" =>
         i > 1 /\ calls[i - 1].op \in ScheduleOps /\ ~calls[i - 1].raised
  /\ error = "ValueError" => pc = "failed"

C6_Witness ==
  \E i \in CallIdx :
    /\ calls[i].op = "job_schedule.create" /\ ~calls[i].raised
    /\ calls[i].name \notin DOMAIN hist.before.schedules
    /\ \E js \in remote.jobSchedules : js.schedule = calls[i].name

\* C7: a schedule that was on the service when the run began keeps all its
\* fields, and the run issues no create or update call for it.
C7_SkipOnPresent ==
  \A n \in DOMAIN hist.before.schedules :
    /\ n \in DOMAIN remote.schedules
    /\ remote.schedules[n] = hist.before.schedules[n]
    /\ \A i \in CallIdx :
         calls[i].op \in {"schedule.create_or_update", "schedule.update"}
           => calls[i].name # n

\* a present schedule that differs from the loaded definition was looked up
C7_Witness ==
  \E k \in 1..Len(LoadedItems) :
    LET n == LoadedItems[k].name
        d == LoadedItems[k].def
    IN /\ n \in DOMAIN hist.before.schedules
       /\ \E i \in CallIdx : calls[i] = Call("schedule.get", n)
       /\ pc = "done"
       /\ remote.schedules[n].frequency # d.Frequency
       /\ remote.schedules[n].is_enabled # Get(d, "IsEnabled", TRUE)

\* the calls of the run that name the schedule n
NamedCalls(n) ==
  {i \in CallIdx : calls[i].name = n /\ calls[i].op \in ScheduleOps \cup {"job_schedule.create"}}

\* C8: a loaded schedule whose normalized EndTime is not after its
\* normalized StartTime gets no remote call and the run fails on it with
\* ValueError; ValueError is raised for no other schedule.
C8_Validation ==
  /\ \A k \in 1..Len(LoadedItems) :
       EndNotAfterStart(LoadedItems[k].def) =>
         /\ NamedCalls(LoadedItems[k].name) = {}
         /\ (pc \in {"schedule", "link", "done", "failed"} /\ idx >= k /\ error = "")
              => (pc = "schedule" /\ idx = k)
  /\ error = "ValueError" =>
       pc = "failed" /\ EndNotAfterStart(LoadedItems[idx].def)

\* C9: the service holds at most one link per (schedule, runbook); a link
\* that was there when the run began is still there unchanged, and the run
\* issues no link creation for its pair.
C9_LinkUnique ==
  /\ \A a, b \in remote.jobSchedules :
       (a.schedule = b.schedule /\ a.runbook = b.runbook) => a = b
  /\ \A js \in hist.before.jobSchedules :
       /\ js \in remote.jobSchedules
       /\ \A k \in 1..Len(LoadedItems) :
            (LoadedItems[k].name = js.schedule
               /\ LoadedItems[k].def.RunbookName = js.runbook)
            => \A i \in CallIdx :
                 ~(calls[i].op = "job_schedule.create" /\ calls[i].name = js.schedule)

\* the link step ran on a linked pair whose loaded parameters differ
C9_Witness ==
  /\ pc = "done"
  /\ \E k \in 1..Len(LoadedItems), js \in hist.before.jobSchedules :
       /\ LoadedItems[k].name = js.schedule
       /\ LoadedItems[k].def.RunbookName = js.runbook
       /\ js \in remote.jobSchedules
       /\ js.parameters #
            params_payload(MergedParameters(LoadedItems[k].def, hist.loaded.resdef))

\* the bindings of rs for principal p at scope sc whose role-definition id
\* is id up to letter case
Bindings(rs, p, sc, id) ==
  {ra \in rs : ra.principal_id = p /\ ra.scope = sc
               /\ Lower(ra.role_definition_id) = Lower(id)}

\* C10: the service holds at most one binding per principal, scope and
\* role-definition id up to letter case; a call that finds no role
\* definition raises and creates nothing; a call creates a binding only
\* after the definition listing and the assignment listing, and only when
\* no binding of that principal, scope and resolved id was there.
C10_RoleBindingUnique ==
  /\ \A a, b \in remote.roleAssignments :
       (/\ a.principal_id = b.principal_id /\ a.scope = b.scope
        /\ Lower(a.role_definition_id) = Lower(b.role_definition_id)) => a = b
  /\ HasPrev =>
       LET id == find_role_definition_id(hist.before, Prev.scope, Prev.role_name)
       IN /\ id = None =>
               /\ error = IF calls[1].raised THEN "HttpResponseError" ELSE "RuntimeError"
               /\ remote.roleAssignments = hist.before.roleAssignments
               /\ \A i \in CallIdx : calls[i].op \notin RoleAssignmentOps
          /\ (\E i \in CallIdx : calls[i].op = "role_assignments.create") =>
               /\ id # None
               /\ calls[1].op = "role_definitions.list"
               /\ calls[2].op = "role_assignments.list_for_scope"
               /\ Bindings(hist.before.roleAssignments, Prev.principal_id,
                           Prev.scope, id) = {}
          /\ remote.roleAssignments # hist.before.roleAssignments =>
               \E ra \in remote.roleAssignments :
                 /\ remote.roleAssignments = hist.before.roleAssignments \cup {ra}
                 /\ ra.principal_id = Prev.principal_id /\ ra.scope = Prev.scope
                 /\ ra.role_definition_id = id

\* a call skipped the creation on a binding whose id differs in letter case
C10_Witness ==
  /\ HasPrev /\ error = "" /\ Len(calls) = 2
  /\ \E ra \in remote.roleAssignments :
       /\ ra.principal_id = Prev.principal_id /\ ra.scope = Prev.scope
       /\ ra.role_definition_id #
            find_role_definition_id(hist.before, Prev.scope, Prev.role_name)
       /\ Lower(ra.role_definition_id) =
            Lower(find_role_definition_id(hist.before, Prev.scope, Prev.role_name))

\* the account step of the current run has returned
AccountStepDone == pc \in {"variables", "runbook", "schedule", "link", "done"}
AccountWasThere == AA \in DOMAIN hist.before.accounts
AccountOps == {"automation_account.create_or_update", "resources.begin_update_by_id"}
RoleOps == RoleAssignmentOps \cup {"role_definitions.list"}

\* the principal p holds the required role at the subscription
HoldsRole(r, p) ==
  \E ra \in r.roleAssignments :
    /\ ra.principal_id = p
    /\ ra.scope = ptu_subscription_resource_id
    /\ Lower(ra.role_definition_id) =
         Lower(find_role_definition_id(r, ptu_subscription_resource_id,
                                       ptu_account_required_role))

OwnParameters ==
  { <<>>,
    ("Mode" :> JNum("1")),
    ("Mode" :> JBool("true")) @@ ("AccountName" :> JStr("own")) }

\* the bags a caller can pass (None and {} both merge as {})
CallerParameters == { <<>>, ResourceDef("ptu1"), ("Mode" :> JBool("false")) }

LinkDefs ==
  {DefB} \cup {DefB @@ ("Parameters" :> own) : own \in OwnParameters}

LinkOf(name, d, params) ==
  [job_schedule_id |-> 0, schedule |-> name, runbook |-> d.RunbookName,
   parameters |-> params_payload(MergedParameters(d, params))]

\* entry of the link step of the first schedule of a run
InitLink ==
  /\ variant \in {"v1", "v2"}
  /\ \E d \in LinkDefs, params \in CallerParameters,
        there \in BOOLEAN, linked \in BOOLEAN :
       /\ remote = [EmptyRemote(<<>>) EXCEPT
            !.schedules = IF there \/ variant = "v1"
                          THEN ("S1" :> [start_time |-> TZ(3), expiry_time |-> NoTime,
                                         frequency |-> d.Frequency,
                                         interval |-> d.Interval,
                                         time_zone |-> "UTC", is_enabled |-> there])
                          ELSE <<>>,
            !.jobSchedules = IF linked /\ (there \/ variant = "v1")
                             THEN {LinkOf("S1", d, <<>>)} ELSE {}]
       /\ schedules_data = SchedDict(<<Item("S1", d)>>)
       /\ resource_def_data = params
       /\ hist = [first |-> remote, before |-> remote,
                  loaded |-> [vars |-> <<>>, body |-> "", resdef |-> params,
                              schedules |-> SchedDict(<<Item("S1", d)>>)],
                  prev |-> <<>>, created |-> <<>>]
  /\ pc = IF variant = "v1" THEN "link" ELSE "schedule"
  /\ idx = 1 /\ exit_status = Running /\ error = "" /\ calls = <<>>
  /\ vars_data = <<>> /\ runs = 1 /\ uuid_counter = 0

NextLink == EnsureScheduleLink \/ EnsureScheduleAndLink

SpecLink == InitLink /\ [][NextLink]_vars

\* the declared Parameters of the loaded schedule called name, {} if absent
DeclaredParameters(name) ==
  LET its == {i \in DOMAIN LoadedItems : LoadedItems[i].name = name}
  IN Get(LoadedItems[CHOOSE i \in its : TRUE].def, "Parameters", <<>>)

\* the links created by this run
NewLinks == remote.jobSchedules \ hist.before.jobSchedules

\* C13: the bag of every link a run creates has exactly the keys of the
\* schedule's declared Parameters and of the caller's bag; a key of the
\* caller's bag carries the string form of the caller's value, any other
\* key the string form of the declared value; with neither the bag is empty.
C13_ParameterMerge ==
  \A js \in NewLinks :
    LET own == DeclaredParameters(js.schedule)
        caller == hist.loaded.resdef
    IN /\ DOMAIN js.parameters = DOMAIN own \cup DOMAIN caller
       /\ \A k \in DOMAIN caller : js.parameters[k] = Str(caller[k])
       /\ \A k \in DOMAIN own \ DOMAIN caller : js.parameters[k] = Str(own[k])
       /\ (own = <<>> /\ caller = <<>>) => js.parameters = <<>>

\* a link was created for a schedule whose declared value of a key differs
\* from the caller's
C13_Witness ==
  \E js \in NewLinks :
    \E k \in DOMAIN DeclaredParameters(js.schedule) \cap DOMAIN hist.loaded.resdef :
      /\ Str(DeclaredParameters(js.schedule)[k]) # Str(hist.loaded.resdef[k])
      /\ js.parameters[k] = Str(hist.loaded.resdef[k])

\* C14: after any step of a run the loaded schedules (with every declared
\* Parameters mapping), the caller's resource reference and the variables
\* are the same as right after load.
C14_DesiredReadOnly ==
  pc # "idle" =>
    /\ schedules_data = hist.loaded.schedules
    /\ resource_def_data = hist.loaded.resdef
    /\ vars_data = hist.loaded.vars

\* the runbook step of the current run has returned
RunbookStepDone ==
  \E i \in CallIdx : calls[i] = Call("runbook.publish.completed", UPDATE_RUNBOOK_NAME)

\* C15: a run without a schedule list whose account, variables and runbook
\* steps went through has completed with status 0 and has issued no
\* schedule and no link call.
C15_OptionalScheduleList ==
  (hist.loaded.schedules.kind = "list" /\ RunbookStepDone) =>
    /\ pc = "done" /\ exit_status = 0
    /\ \A i \in CallIdx : calls[i].op \notin ScheduleOps \cup {"job_schedule.create"}

\* ------------------------------------------ two runs at the same time
\* Two processes run the script against the same subscription.  Each remote
\* call is a step of its own, so the listing a process has read can be out
\* of date when it acts on it.  Here pc, error and hist are kept per
\* process; hist[p] holds the locals `existing` and `exists` of process p.
\* The steps between ensure_role_assignment and ensure_schedule_link touch
\* neither the role assignments nor the links and are passed over.
Procs == {1, 2}
RacePrincipal == "p1"
RaceSchedule == "S1"

RaceCall(op, name, p, id, raised, deduped) ==
  [op |-> op, name |-> name, by |-> p, id |-> id, raised |-> raised,
   deduped |-> deduped]

\* what the service does with a create for a key it already holds
DuplicateOutcomes == {"accepted", "rejected", "deduped"}

\* existing = any(...) over the listing of role assignments
role_existing(r) ==
  Bindings(r.roleAssignments, RacePrincipal, ptu_subscription_resource_id,
           find_role_definition_id(r, ptu_subscription_resource_id,
                                   ptu_account_required_role)) # {}

\* exists = any(...) over the listing of job schedules
link_exists(r) ==
  \E js \in r.jobSchedules :
    js.schedule = RaceSchedule /\ js.runbook = UPDATE_RUNBOOK_NAME

\* the act re-reading the service instead of using the listing it holds
create_needed_guarded(observed, now) == ~now

\* `if not existing:` / `if exists: return`: the create is decided on the
\* listing read before (observed), whatever the service holds by now (now)
create_needed(observed, now) == ~observed

InitRace ==
  /\ variant = "v1"
  /\ \E bound \in BOOLEAN, linked \in BOOLEAN :
       remote = [EmptyRemote(<<RoleDefinition("/rd/Contributor")>>) EXCEPT
         !.accounts = (AA :> [id |-> AA, identity |->
                         [type |-> "SystemAssigned", principal_id |-> RacePrincipal]]),
         !.roleAssignments = IF bound
                             THEN {Binding(101, RacePrincipal, "/RD/Contributor")}
                             ELSE {},
         !.jobSchedules = IF linked THEN {LinkOf(RaceSchedule, DefA, <<>>)} ELSE {}]
  /\ pc = [p \in Procs |-> "role_list"]
  /\ error = [p \in Procs |-> ""]
  /\ hist = [p \in Procs |-> [existing |-> FALSE, exists |-> FALSE]]
  /\ idx = 1 /\ exit_status = Running /\ calls = <<>>
  /\ vars_data = <<>> /\ schedules_data = SchedDict(<<Item(RaceSchedule, DefA)>>)
  /\ resource_def_data = ResourceDef("ptu1")
  /\ runs = 2 /\ uuid_counter = 0

RaceFrame == UNCHANGED <<variant, idx, exit_status, vars_data, schedules_data,
                         resource_def_data, runs>>

\* process p reads the role definitions and lists the role assignments
RoleList(p) ==
  /\ pc[p] = "role_list"
  /\ hist' = [hist EXCEPT ![p].existing = role_existing(remote)]
  /\ pc' = [pc EXCEPT ![p] = "role_create"]
  /\ UNCHANGED <<remote, calls, uuid_counter, error>>
  /\ RaceFrame

\* process p acts on the listing it holds
RoleCreate(p) ==
  /\ pc[p] = "role_create"
  /\ IF create_needed(hist[p].existing, role_existing(remote))
     THEN \E o \in IF role_existing(remote) THEN DuplicateOutcomes ELSE {"accepted"} :
            /\ uuid_counter' = uuid_counter + 1
            /\ calls' = Append(calls,
                 RaceCall("role_assignments.create", RacePrincipal, p,
                          uuid_counter + 1, o = "rejected", o = "deduped"))
            /\ remote' = IF o = "accepted"
                         THEN [remote EXCEPT !.roleAssignments = @ \cup
                                 {Binding(uuid_counter + 1, RacePrincipal,
                                    find_role_definition_id(remote,
                                      ptu_subscription_resource_id,
                                      ptu_account_required_role))}]
                         ELSE remote
            /\ pc' = [pc EXCEPT ![p] = IF o = "rejected" THEN "failed" ELSE "link_list"]
            /\ error' = [error EXCEPT ![p] = IF o = "rejected"
                                              THEN "HttpResponseError" ELSE ""]
     ELSE /\ pc' = [pc EXCEPT ![p] = "link_list"]
          /\ UNCHANGED <<remote, calls, uuid_counter, error>>
  /\ UNCHANGED hist
  /\ RaceFrame

\* process p lists the job schedules of the account
LinkList(p) ==
  /\ pc[p] = "link_list"
  /\ hist' = [hist EXCEPT ![p].exists = link_exists(remote)]
  /\ pc' = [pc EXCEPT ![p] = "link_create"]
  /\ UNCHANGED <<remote, calls, uuid_counter, error>>
  /\ RaceFrame

LinkCreate(p) ==
  /\ pc[p] = "link_create"
  /\ IF create_needed(hist[p].exists, link_exists(remote))
     THEN \E o \in IF link_exists(remote) THEN DuplicateOutcomes ELSE {"accepted"} :
            /\ uuid_counter' = uuid_counter + 1
            /\ calls' = Append(calls,
                 RaceCall("job_schedule.create", RaceSchedule, p,
                          uuid_counter + 1, o = "rejected", o = "deduped"))
            /\ remote' = IF o = "accepted"
                         THEN [remote EXCEPT !.jobSchedules = @ \cup
                                 {[LinkOf(RaceSchedule, DefA, resource_def_data)
                                     EXCEPT !.job_schedule_id = uuid_counter + 1]}]
                         ELSE remote
            /\ pc' = [pc EXCEPT ![p] = IF o = "rejected" THEN "failed" ELSE "done"]
            /\ error' = [error EXCEPT ![p] = IF o = "rejected"
                                              THEN "HttpResponseError" ELSE ""]
     ELSE /\ pc' = [pc EXCEPT ![p] = "done"]
          /\ UNCHANGED <<remote, calls, uuid_counter, error>>
  /\ UNCHANGED hist
  /\ RaceFrame

NextRace ==
  \E p \in Procs : RoleList(p) \/ RoleCreate(p) \/ LinkList(p) \/ LinkCreate(p)

SpecRace == InitRace /\ [][NextRace]_vars

\* the creates of one kind in the log, as positions
CreatesOf(op) == {i \in CallIdx : calls[i].op = op}
RaceBindings ==
  Bindings(remote.roleAssignments, RacePrincipal, ptu_subscription_resource_id,
           "/rd/Contributor")
RaceLinks ==
  {js \in remote.jobSchedules :
     js.schedule = RaceSchedule /\ js.runbook = UPDATE_RUNBOOK_NAME}

\* C16: a process that read a listing without the assignment (the link)
\* issues the create when it gets to act, whatever the other process has
\* done meanwhile; two creates never carry the same id; and when both
\* processes have issued the create for the same key, the service holds
\* the key twice unless it rejected or deduped one of the two creates.
C16_CheckThenAct ==
  /\ \A p \in Procs :
       /\ (pc[p] \in {"link_list", "link_create", "done"} /\ ~hist[p].existing)
            => \E i \in CreatesOf("role_assignments.create") : calls[i].by = p
       /\ (pc[p] = "done" /\ ~hist[p].exists)
            => \E i \in CreatesOf("job_schedule.create") : calls[i].by = p
  /\ \A i, j \in CallIdx : i # j => calls[i].id # calls[j].id
  /\ (Cardinality(CreatesOf("role_assignments.create")) = 2
        /\ Cardinality(RaceBindings) < 2)
       => \E i \in CreatesOf("role_assignments.create") :
            calls[i].raised \/ calls[i].deduped
  /\ (Cardinality(CreatesOf("job_schedule.create")) = 2
        /\ Cardinality(RaceLinks) < 2)
       => \E i \in CreatesOf("job_schedule.create") :
            calls[i].raised \/ calls[i].deduped

\* both processes read an empty listing, both created, and the service
\* holds two assignments and two links for the same key
C16_Witness ==
  /\ \A p \in Procs : pc[p] = "done" /\ ~hist[p].existing /\ ~hist[p].exists
  /\ Cardinality(RaceBindings) = 2
  /\ Cardinality(RaceLinks) = 2

\* the variables step of the current run has returned
VariablesStepDone ==
  pc = "runbook" \/ \E i \in CallIdx : calls[i].op = "runbook.get"

LoadedVars == hist.loaded.vars
LoadedVarNames == {LoadedVars[i].name : i \in DOMAIN LoadedVars}
VariableCalls(n) ==
  {i \in CallIdx : calls[i].name = n /\ calls[i].op = "variable.create_or_update"}

\* C17: once the variables step has returned, every loaded variable is held
\* by the service with the JSON text of its value and with its Encrypted
\* flag (false when the file has none), whatever was held before; the run
\* has issued exactly one upsert per loaded variable and no other variable
\* call; every other variable is as it was when the run started.
C17_WriteAlways ==
  /\ VariablesStepDone =>
       /\ \A i \in DOMAIN LoadedVars :
            /\ LoadedVars[i].name \in DOMAIN remote.variables
            /\ remote.variables[LoadedVars[i].name].value =
                 JsonDumps(LoadedVars[i].v.Value)
            /\ remote.variables[LoadedVars[i].name].is_encrypted =
                 Get(LoadedVars[i].v, "Encrypted", FALSE)
            /\ Cardinality(VariableCalls(LoadedVars[i].name)) = 1
       /\ DOMAIN remote.variables = DOMAIN hist.before.variables \cup LoadedVarNames
  /\ \A i \in CallIdx :
       (calls[i].op \notin {"variable.create_or_update"}) =>
          calls[i].name \notin LoadedVarNames
  /\ pc # "idle" =>
       \A n \in DOMAIN hist.before.variables \ LoadedVarNames :
         /\ n \in DOMAIN remote.variables
         /\ remote.variables[n] = hist.before.variables[n]

\* the step overwrote a variable that held another value and left alone a
\* variable the file does not name
C17_Witness ==
  /\ VariablesStepDone
  /\ \E i \in DOMAIN LoadedVars :
       /\ LoadedVars[i].name \in DOMAIN hist.before.variables
       /\ hist.before.variables[LoadedVars[i].name].value #
            JsonDumps(LoadedVars[i].v.Value)
       /\ remote.variables[LoadedVars[i].name].value =
            JsonDumps(LoadedVars[i].v.Value)
  /\ DOMAIN hist.before.variables \ LoadedVarNames # {}

\* the positions of the calls of one operation on the runbook
RunbookCalls(op) ==
  {i \in CallIdx : calls[i].op = op /\ calls[i].name = UPDATE_RUNBOOK_NAME}

\* the run is past the runbook step
PastRunbookStep ==
  \/ pc \in {"schedule", "link", "done"}
  \/ \E i \in CallIdx : calls[i].op \in ScheduleOps \cup
                          {"job_schedule.list_by_automation_account",
                           "job_schedule.create"}

\* C18: a run that is past the runbook step has issued exactly one content
\* replace and one publish for the runbook, in that order, and the publish
\* had completed before any later call; this holds whether or not the
\* runbook was there.  The empty runbook is created only in a run that
\* started without the runbook, right after the get.
C18_AlwaysRefreshed ==
  /\ PastRunbookStep =>
       /\ Cardinality(RunbookCalls("runbook_draft.begin_replace_content")) = 1
       /\ Cardinality(RunbookCalls("runbook.begin_publish")) = 1
       /\ Cardinality(RunbookCalls("runbook.publish.completed")) = 1
       /\ \A i \in RunbookCalls("runbook_draft.begin_replace_content"),
             j \in RunbookCalls("runbook.begin_publish"),
             k \in RunbookCalls("runbook.publish.completed") :
            /\ i < j /\ j < k /\ ~calls[i].raised /\ ~calls[j].raised
            /\ \A l \in CallIdx :
                 calls[l].op \in ScheduleOps \cup
                   {"job_schedule.list_by_automation_account", "job_schedule.create"}
                 => k < l
       /\ (RunbookCalls("runbook.create_or_update") # {}
             <=> UPDATE_RUNBOOK_NAME \notin DOMAIN hist.before.runbooks)
  /\ \A i \in RunbookCalls("runbook.create_or_update") :
       /\ UPDATE_RUNBOOK_NAME \notin DOMAIN hist.before.runbooks
       /\ i > 1 /\ calls[i - 1] = Call("runbook.get", UPDATE_RUNBOOK_NAME)
       /\ Cardinality(RunbookCalls("runbook.create_or_update")) = 1

\* a run went past the runbook step on a runbook that was already there
\* and published, without creating it
C18_Witness ==
  /\ PastRunbookStep
  /\ UPDATE_RUNBOOK_NAME \in DOMAIN hist.before.runbooks
  /\ hist.before.runbooks[UPDATE_RUNBOOK_NAME].draft = hist.loaded.body
  /\ RunbookCalls("runbook.create_or_update") = {}
  /\ RunbookCalls("runbook.publish.completed") # {}

\* the get of each kind of resource with its create and its updates, and
\* the resources of that kind the service held when the run started
GetThenCreate ==
  { [get |-> "automation_account.get",
     create |-> "automation_account.create_or_update",
     writes |-> {"automation_account.create_or_update",
                 "resources.begin_update_by_id"},
     held |-> DOMAIN hist.before.accounts],
    [get |-> "runbook.get",
     create |-> "runbook.create_or_update",
     writes |-> {"runbook.create_or_update"},
     held |-> DOMAIN hist.before.runbooks],
    [get |-> "schedule.get",
     create |-> "schedule.create_or_update",
     writes |-> {"schedule.create_or_update", "schedule.update"},
     held |-> DOMAIN hist.before.schedules] }

\* C19: for account, runbook and schedule, a create is issued right after a
\* get of the same resource that returned NotFound, and every get that
\* returned NotFound is followed by the create; a get that fails otherwise
\* is the last call of the run, the run ends with that error and status 1,
\* and the run has issued no create or update for that resource.
C19_OnlyNotFoundCreates ==
  \A k \in GetThenCreate :
    \A i \in CallIdx :
      /\ calls[i].op = k.create =>
           /\ i > 1
           /\ calls[i - 1] = Call(k.get, calls[i].name)
           /\ calls[i].name \notin k.held
      /\ (calls[i].op = k.get /\ ~calls[i].raised /\ calls[i].name \notin k.held) =>
           /\ i < Len(calls)
           /\ calls[i + 1].op = k.create /\ calls[i + 1].name = calls[i].name
      /\ (calls[i].op = k.get /\ calls[i].raised) =>
           /\ i = Len(calls)
           /\ pc = "failed" /\ error = "HttpResponseError" /\ exit_status = 1
           /\ \A j \in CallIdx :
                calls[j].name = calls[i].name => calls[j].op \notin k.writes

\* the get of a schedule the service does not hold failed with another
\* error: the run ended there
C19_Witness ==
  /\ Len(calls) > 0
  /\ calls[Len(calls)].op = "schedule.get"
  /\ calls[Len(calls)].raised
  /\ calls[Len(calls)].name \notin DOMAIN remote.schedules
  /\ pc = "failed"

\* IsEnabled of the loaded schedule called name, true when the file has none
DesiredEnabled(name) ==
  LET its == {i \in DOMAIN LoadedItems : LoadedItems[i].name = name}
  IN Get(LoadedItems[CHOOSE i \in its : TRUE].def, "IsEnabled", TRUE)

\* C20: in the variant with ensure_schedule, a schedule.update is issued
\* only right after the create of the same schedule and only when the flag
\* of the created schedule differs from the desired IsEnabled; when it
\* differs the update is issued; and once the step has succeeded the flag
\* the service holds for the created schedule is the desired one.
C20_EnabledOfNewSchedule ==
  \A i \in CallIdx :
    LET n == calls[i].name IN
    /\ calls[i].op = "schedule.update" =>
         /\ variant = "v1" /\ i > 1
         /\ calls[i - 1] = Call("schedule.create_or_update", n)
         /\ n \notin DOMAIN hist.before.schedules
         /\ n \in DOMAIN hist.created
         /\ hist.created[n] # DesiredEnabled(n)
    /\ (variant = "v1" /\ calls[i] = Call("schedule.create_or_update", n)) =>
         /\ n \in DOMAIN hist.created
         /\ IF hist.created[n] = DesiredEnabled(n)
            THEN remote.schedules[n].is_enabled = DesiredEnabled(n)
            ELSE /\ i < Len(calls)
                 /\ calls[i + 1].op = "schedule.update" /\ calls[i + 1].name = n
                 /\ ~calls[i + 1].raised =>
                      remote.schedules[n].is_enabled = DesiredEnabled(n)

\* a schedule was created with the flag the file does not want and the
\* update has set it right
C20_Witness ==
  \E i \in CallIdx :
    /\ variant = "v1"
    /\ calls[i] = Call("schedule.update", calls[i].name)
    /\ hist.created[calls[i].name] = TRUE
    /\ DesiredEnabled(calls[i].name) = FALSE
    /\ remote.schedules[calls[i].name].is_enabled = FALSE

\* ------------------------------------------------ convert_to_utc alone
\* The function is applied to a timestamp text, then to its own result.
\* Here hist holds the arguments of the first call and the results so far.
ChLowerZ == 122

\* the characters a text is made of: two digits, "Z" and "z"
TimeChars == {Digit(1), Digit(2), ChZ, ChLowerZ}

\* every text of at most MaxLen characters, the empty one included
TimeTexts == UNION {[1..n -> TimeChars] : n \in 0..MaxLen}

\* zones taken by the first branch: None or "" (both falsy), and UTC in
\* several spellings
UtcZones == {"", "UTC", "utc", "Utc", "uTC"}
OtherZones == {"Etc/GMT+1", "Etc/GMT+2"}

\* texts that datetime.fromisoformat reads as a naive time on every Python
NaiveTimes == {T(h) : h \in {10, 11, 12, 21, 22}}

InitTime ==
  /\ \E z \in UtcZones \cup OtherZones :
       \E t \in IF z \in UtcZones THEN TimeTexts ELSE NaiveTimes :
         hist = [iso_str |-> t, time_zone |-> z, results |-> <<>>]
  /\ variant = "v1" /\ remote = EmptyRemote(<<>>)
  /\ pc = "time" /\ idx = 0 /\ exit_status = Running /\ error = "" /\ calls = <<>>
  /\ vars_data = <<>> /\ schedules_data = SchedList /\ resource_def_data = <<>>
  /\ runs = 0 /\ uuid_counter = 0

\* convert_to_utc on the text, or on the result of the call before; a
\* result is given back to the function only on the first branch, where
\* nothing is parsed
ConvertToUtc ==
  /\ pc = "time"
  /\ Len(hist.results) < MaxApply
  /\ hist.results = <<>> \/ hist.time_zone \in UtcZones
  /\ LET arg == IF hist.results = <<>> THEN hist.iso_str
                ELSE hist.results[Len(hist.results)]
     IN hist' = [hist EXCEPT !.results = Append(@, convert_to_utc(arg, hist.time_zone))]
  /\ UNCHANGED <<variant, remote, pc, idx, exit_status, error, calls, vars_data,
                 schedules_data, resource_def_data, runs, uuid_counter>>

NextTime == ConvertToUtc

SpecTime == InitTime /\ [][NextTime]_vars

\* C21: for a zone that is UTC in any letter case or absent, every result
\* of convert_to_utc is the text itself when the text ends in "Z" and the
\* text followed by "Z" otherwise, so a second application returns what the
\* first returned; a text of hour 10 without "Z" in zone "UTC" gives the
\* same text with "Z".
C21_UtcPath ==
  /\ hist.time_zone \in UtcZones =>
       /\ \A i \in DOMAIN hist.results :
            hist.results[i] =
              IF hist.iso_str # <<>> /\ hist.iso_str[Len(hist.iso_str)] = ChZ
              THEN hist.iso_str
              ELSE hist.iso_str \o <<ChZ>>
       /\ \A i, j \in DOMAIN hist.results : hist.results[i] = hist.results[j]
  /\ convert_to_utc(T(10), "UTC") = TZ(10)

\* a text ending in "Z" went through the function twice in zone "utc"
\* and came back as it was
C21_Witness ==
  /\ hist.time_zone = "utc"
  /\ Len(hist.iso_str) = MaxLen
  /\ hist.iso_str[Len(hist.iso_str)] = ChZ
  /\ Len(hist.results) = 2
  /\ hist.results[2] = hist.iso_str

====
